---- MODULE Spec2Model ----
(***************************************************************************)
(* Model of the notebook biosolids_filtering.ipynb: the Jupyter kernel's   *)
(* variables, the pickle files it writes and reads, and one action per     *)
(* code cell.  Data frames are functions from row index labels to rows;    *)
(* boolean indexing keeps the labels of the rows it selects.               *)
(***************************************************************************)
EXTENDS Integers, Sequences, FiniteSets, TLC

VARIABLES
    pc,                     \* the cell the run executes next, in document order
    defined,                \* names bound in the kernel's namespace
    files,                  \* pickle files that exist on disk
    now,                    \* wall clock, in minutes
    lookup_calls,           \* permits looked up since the snapshot was written
    last_error,             \* exception raised by the last cell run, or "none"
    pkl_sic_codes,          \* biosolids_data_sic_codes.pkl
    pkl_not_sewer,          \* biosolids_data_sic_codes_not_sewer.pkl
    pkl_to_remove,          \* biosolids_to_remove.pkl
    pkl_to_remove_dated,    \* biosolids_to_remove_<stamp>.pkl, by stamp
    all_biosolids,
    biosolids_to_remove,
    biosolids_not_sewer,
    biosolids_not_sewer_not_potw,
    biosolids_not_sewer_is_potw,
    biosolids_not_potw_includes_dw,
    biosolids_not_sewer_not_potw_has_match,
    biosolids_not_sewer_not_potw_no_match,
    biosolids_not_sewer_not_potw_has_match_sic_removal,
    biosolids_not_sewer_not_potw_has_match_sic_check,
    remove_original,
    remove_update,
    compare_removal_list_indices,
    compare_removal_list,
    has_match_config,       \* which rule-2 variant built ..._has_match
    to_remove_config        \* which stage assigned biosolids_to_remove

vars == << pc, defined, files, now, lookup_calls, last_error, pkl_sic_codes, pkl_not_sewer,
           pkl_to_remove, pkl_to_remove_dated, all_biosolids,
           biosolids_to_remove, biosolids_not_sewer,
           biosolids_not_sewer_not_potw, biosolids_not_sewer_is_potw,
           biosolids_not_potw_includes_dw,
           biosolids_not_sewer_not_potw_has_match,
           biosolids_not_sewer_not_potw_no_match,
           biosolids_not_sewer_not_potw_has_match_sic_removal,
           biosolids_not_sewer_not_potw_has_match_sic_check,
           remove_original, remove_update, compare_removal_list_indices,
           compare_removal_list, has_match_config, to_remove_config >>

kernel_frames == << all_biosolids, biosolids_to_remove, biosolids_not_sewer,
           biosolids_not_sewer_not_potw, biosolids_not_sewer_is_potw,
           biosolids_not_potw_includes_dw,
           biosolids_not_sewer_not_potw_has_match,
           biosolids_not_sewer_not_potw_no_match,
           biosolids_not_sewer_not_potw_has_match_sic_removal,
           biosolids_not_sewer_not_potw_has_match_sic_check >>

compare_vars == << remove_original, remove_update,
                   compare_removal_list_indices, compare_removal_list >>

disk == << pkl_sic_codes, pkl_not_sewer, pkl_to_remove, pkl_to_remove_dated >>

-----------------------------------------------------------------------------
(* Bounds *)

MaxRows == 2        \* rows of the roster
MaxMinute == 1      \* latest minute at which the run may start
MaxCodes == 3       \* codes in one sic_permit list

-----------------------------------------------------------------------------
(* Values *)

\* A data frame with no rows; also the value of an unbound name.
EmptyFrame == << >>

\* A column a frame does not have (yet).
NoColumn == "<no column>"

\* pandas' missing value in a text column (an empty CSV cell).
NaN == << "NaN" >>

\* SIC codes are written as strings so that a code list and the no-match
\* marker can sit in the same list, as they do in Python.
NO_SIC_MATCH == "NO_SIC_MATCH"

dw_code == "4941"

sic_remove == << "6515", "4941", "8211", "8221", "7033", "7032", "9223",
                 "1389", "3533", "8361", "8661", "7997", "7999", "8051",
                 "3498", "7011", "3171", "2491", "2493", "9711", "3743",
                 "5541", "4911", "5075", "7041", "2011", "8063", "5812",
                 "7999", "2899", "3331", "6531", "4011", "6514", "2621",
                 "4581", "1522" >>

sic_check == << "1629", "9511", "9199", "7299", "2819" >>

\* The facilities the manual review looked at, all decided "remove".
manual_review_remove == { "TX0129321", "TX0083933", "TX0101656",
                          "TX0138754", "SCL000175" }

\* (variant: City left out of the list)
common_columns_no_city == { "name", "npdes_id", "state", "text" }

common_columns == { "name", "npdes_id", "city", "state", "text" }

\* x in list
PyIn(item, list) == \E i \in DOMAIN list : list[i] = item

\* Series.str.contains(pat) on one cell: substring search, NaN stays NaN.
Substring(text, pat) ==
    \E k \in 0..(Len(text) - Len(pat)) :
        \A j \in 1..Len(pat) : text[k + j] = pat[j]

POTW == << "P", "O", "T", "W" >>

str_contains(text, pat) ==
    IF text = NaN THEN "NaN"
    ELSE IF Substring(text, pat) THEN "True" ELSE "False"

\* frame[mask]: the rows at the labels where the mask is true, under their
\* own labels.
Masked(frame, labels) == [ i \in labels |-> frame[i] ]

-----------------------------------------------------------------------------
(* utilities.py: the SIC registry, the lookup and the classifier *)

\* The SIC codes on file per permit (rows of the notebook's displays, and
\* three permits that stand for a sewer system, a sewer system that also
\* holds a school code, and an unreviewed government facility).
RegistryIds == { "TX0125709", "TX0118362", "TX0129321", "KYL020237",
                 "TX0000001", "TX0000002", "TX0000003" }

SicRegistry(npdes_id) ==
    CASE npdes_id = "TX0125709" -> << "4941", "4941" >>
      [] npdes_id = "TX0118362" -> << "4941" >>
      [] npdes_id = "TX0129321" -> << "7299", "7299" >>
      [] npdes_id = "KYL020237" -> << "9511", "9511", "4941" >>
      [] npdes_id = "TX0000001" -> << "4952" >>
      [] npdes_id = "TX0000002" -> << "4952", "8211" >>
      [] npdes_id = "TX0000003" -> << "9511" >>
      [] OTHER -> << >>

sewer_codes == { "4952" }

\* check_all_sic_code: every code on file, or the no-match marker
check_all_sic_code(npdes_id) ==
    IF SicRegistry(npdes_id) = << >> THEN << NO_SIC_MATCH >>
    ELSE SicRegistry(npdes_id)

\* classify a code list
classify(codes) ==
    IF \E i \in DOMAIN codes : codes[i] \in sewer_codes
    THEN "sewer_system" ELSE "other_system"

\* check_for_ww_permits: looks the permit up again and classifies it
check_for_ww_permits(npdes_id) == classify(check_all_sic_code(npdes_id))

-----------------------------------------------------------------------------
(* The filters of the notebook's cells *)

\* (variant: the verdict filter left out)
NotSewer_unfiltered(frame) == frame

\* all_biosolids[all_biosolids['check_sewer_permits'] == 'other_system']
NotSewer(frame) ==
    Masked(frame, { i \in DOMAIN frame :
               frame[i].check_sewer_permits = "other_system" })

\* a text cell on which ~ or boolean indexing of the str.contains mask fails
HasNaNText(frame) == \E i \in DOMAIN frame : frame[i].text = NaN

\* (variant: the original rule already lets water-supply codes through)
NotPotw_unless_dw(frame) ==
    Masked(frame, { i \in DOMAIN frame : ~(str_contains(frame[i].text, POTW) = "True"
                               /\ ~PyIn(dw_code, frame[i].sic_permit)) })

\* potw_mask = ~frame['Reporting Obligation(s)'].str.contains('POTW')
NotPotw(frame) ==
    Masked(frame, { i \in DOMAIN frame :
               str_contains(frame[i].text, POTW) = "False" })

\* potw_mask = frame['Reporting Obligation(s)'].str.contains('POTW')
IsPotw(frame) ==
    Masked(frame, { i \in DOMAIN frame :
               str_contains(frame[i].text, POTW) = "True" })

\* the two columns the revised pass adds
WithPotwCheck(frame) ==
    [ i \in DOMAIN frame |->
        [ frame[i] EXCEPT !.potw_check = str_contains(frame[i].text, POTW) ] ]

\* (variant: only the first code of the list is compared with dw_code)
WithDwSicCheck_first_code(frame) ==
    [ i \in DOMAIN frame |->
        [ frame[i] EXCEPT !.dw_sic_check =
            IF frame[i].sic_permit[1] = dw_code THEN "True" ELSE "False" ] ]

WithDwSicCheck(frame) ==
    [ i \in DOMAIN frame |->
        [ frame[i] EXCEPT !.dw_sic_check =
            IF PyIn(dw_code, frame[i].sic_permit) THEN "True" ELSE "False" ] ]

\* (variant: the water-supply condition left out of the mask)
NotPotwUnlessDw_no_dw(frame) ==
    Masked(frame, { i \in DOMAIN frame : ~(frame[i].potw_check = "True") })

\* (variant: the mask without its negation)
NotPotwUnlessDw_not_negated(frame) ==
    Masked(frame, { i \in DOMAIN frame :
               frame[i].potw_check = "True" /\ frame[i].dw_sic_check = "False" })

\* ~((potw_check == 1) & (dw_sic_check == 0)); NaN == 1 is False
NotPotwUnlessDw(frame) ==
    Masked(frame, { i \in DOMAIN frame :
               ~(frame[i].potw_check = "True" /\ frame[i].dw_sic_check = "False") })

\* (variants: the no-match filter left out; "in" for "not in")
HasMatch_unfiltered(frame) == frame

HasMatch_inverted(frame) ==
    Masked(frame, { i \in DOMAIN frame :
               PyIn(NO_SIC_MATCH, frame[i].sic_permit) })

\* 'NO_SIC_MATCH' not in x
HasMatch(frame) ==
    Masked(frame, { i \in DOMAIN frame :
               ~PyIn(NO_SIC_MATCH, frame[i].sic_permit) })

\* 'NO_SIC_MATCH' in x
NoMatch(frame) ==
    Masked(frame, { i \in DOMAIN frame :
               PyIn(NO_SIC_MATCH, frame[i].sic_permit) })

\* any(item in sic_remove for item in x)
AnySicRemove(codes) == \E i \in DOMAIN codes : PyIn(codes[i], sic_remove)

SicRemoval(frame) ==
    Masked(frame, { i \in DOMAIN frame :
               AnySicRemove(frame[i].sic_permit) })

SicCheck(frame) ==
    Masked(frame, { i \in DOMAIN frame :
               ~AnySicRemove(frame[i].sic_permit) })

\* (variant: only the review bucket is handed on)
ToRemove_check_bucket(has_match) ==
    Masked(has_match, { i \in DOMAIN has_match :
               ~AnySicRemove(has_match[i].sic_permit) })

\* biosolids_to_remove = biosolids_not_sewer_not_potw_has_match
ToRemove(has_match) == has_match

-----------------------------------------------------------------------------
(* The roster *)

\* 'A POTW that serves 10,000 people or more', the text of rows 462 and
\* 4171 of the comparison's output
PotwServes ==
    << "A", " ", "P", "O", "T", "W", " ", "t", "h", "a",
       "t", " ", "s", "e", "r", "v", "e", "s", " ", "1",
       "0", ",", "0", "0", "0", " ", "p", "e", "o", "p",
       "l", "e", " ", "o", "r", " ", "m", "o", "r", "e" >>

\* Reporting-obligation texts: with "POTW", in lower case, missing.
RosterTexts == { PotwServes, << "a", " ", "p", "o", "t", "w" >>, NaN }

\* "TX0000009" is on no registry row.
RosterIds == RegistryIds \cup { "TX0000009" }

RawRow(npdes_id, text) ==
    [ name |-> "WWTP", npdes_id |-> npdes_id, city |-> "TYLER", state |-> "TX",
      text |-> text, sic_permit |-> NoColumn, check_sewer_permits |-> NoColumn,
      potw_check |-> NoColumn, dw_sic_check |-> NoColumn ]

\* (variant: the batch stops at the first permit the lookup does not find)
Enrich_stops_at_failure(frame) ==
    [ i \in DOMAIN frame |->
        IF \E j \in DOMAIN frame : j <= i /\ frame[j].npdes_id \notin RegistryIds
        THEN frame[i]
        ELSE [ frame[i] EXCEPT !.sic_permit = check_all_sic_code(frame[i].npdes_id) ] ]

\* all_biosolids['sic_permit'] = all_biosolids['NPDES ID'].apply(check_all_sic_code)
Enrich(frame) ==
    [ i \in DOMAIN frame |->
        [ frame[i] EXCEPT !.sic_permit = check_all_sic_code(frame[i].npdes_id) ] ]

\* read_csv gives the rows the labels 0, 1, ...
Rosters ==
    UNION { [ 0..(n - 1) -> { RawRow(id, t) : id \in RosterIds, t \in RosterTexts } ]
            : n \in 1..MaxRows }

\* (variant: the classifier applied to the Facility Name column)
WithVerdict_wrong_column(frame) ==
    [ i \in DOMAIN frame |->
        [ frame[i] EXCEPT !.check_sewer_permits =
            check_for_ww_permits(frame[i].name) ] ]

\* all_biosolids['check_sewer_permits'] = all_biosolids['NPDES ID'].apply(check_for_ww_permits)
WithVerdict(frame) ==
    [ i \in DOMAIN frame |->
        [ frame[i] EXCEPT !.check_sewer_permits =
            check_for_ww_permits(frame[i].npdes_id) ] ]

-----------------------------------------------------------------------------
(* The two passes from the enriched roster to the removal list, cell after
   cell *)

\* cells 6b58, a554, 529c, ac96, e0d5; EmptyFrame when cell 529c raises
OriginalPass(roster) ==
    LET not_sewer == NotSewer(WithVerdict(roster))
    IN  IF HasNaNText(not_sewer) THEN EmptyFrame
        ELSE ToRemove(HasMatch(NotPotw(not_sewer)))

\* cells 6b58, 9a43, 9cb6
RevisedPass_rows(roster) ==
    LET not_sewer == WithDwSicCheck(WithPotwCheck(NotSewer(WithVerdict(roster))))
    IN  ToRemove(HasMatch(NotPotwUnlessDw(not_sewer)))

-----------------------------------------------------------------------------
(* State after construction: the enriched roster is on disk, the kernel is
   fresh. *)

InitKernel ==
    /\ defined = {}
    /\ last_error = "none"
    /\ all_biosolids = EmptyFrame
    /\ biosolids_to_remove = EmptyFrame
    /\ biosolids_not_sewer = EmptyFrame
    /\ biosolids_not_sewer_not_potw = EmptyFrame
    /\ biosolids_not_sewer_is_potw = EmptyFrame
    /\ biosolids_not_potw_includes_dw = EmptyFrame
    /\ biosolids_not_sewer_not_potw_has_match = EmptyFrame
    /\ biosolids_not_sewer_not_potw_no_match = EmptyFrame
    /\ biosolids_not_sewer_not_potw_has_match_sic_removal = EmptyFrame
    /\ biosolids_not_sewer_not_potw_has_match_sic_check = EmptyFrame
    /\ remove_original = EmptyFrame
    /\ remove_update = EmptyFrame
    /\ compare_removal_list_indices = << >>
    /\ compare_removal_list = << >>
    /\ has_match_config = "none"
    /\ to_remove_config = "none"

Init ==
    /\ InitKernel
    /\ pc = 1
    /\ now \in 0..MaxMinute
    /\ lookup_calls = {}
    /\ files = { "biosolids_data_sic_codes.pkl" }
    /\ \E roster \in Rosters : pkl_sic_codes = Enrich(roster)
    /\ pkl_not_sewer = EmptyFrame
    /\ pkl_to_remove = EmptyFrame
    /\ pkl_to_remove_dated = << >>

-----------------------------------------------------------------------------
(* The cells.  A cell that raises leaves the names it had not yet bound as
   they were. *)

Raise(err) ==
    /\ last_error' = err
    /\ UNCHANGED << defined, files, now, lookup_calls, disk, kernel_frames, compare_vars,
                    has_match_config, to_remove_config >>

\* (variant: the enriched roster is only kept in the kernel)
EnrichRoster_not_saved ==
    /\ \E roster \in Rosters : all_biosolids' = Enrich(roster)
    /\ defined' = defined \cup { "all_biosolids" }
    /\ last_error' = "none"
    /\ UNCHANGED << files, now, lookup_calls, disk, biosolids_to_remove,
                    biosolids_not_sewer,
                    biosolids_not_sewer_not_potw, biosolids_not_sewer_is_potw,
                    biosolids_not_potw_includes_dw,
                    biosolids_not_sewer_not_potw_has_match,
                    biosolids_not_sewer_not_potw_no_match,
                    biosolids_not_sewer_not_potw_has_match_sic_removal,
                    biosolids_not_sewer_not_potw_has_match_sic_check,
                    compare_vars, has_match_config, to_remove_config >>

\* cell 3b195f9bde913979 with its statements in force: read the raw roster,
\* attach the codes, pickle the result
EnrichRoster ==
    /\ \E roster \in Rosters : all_biosolids' = Enrich(roster)
    /\ pkl_sic_codes' = all_biosolids'
    /\ files' = files \cup { "biosolids_data_sic_codes.pkl" }
    /\ defined' = defined \cup { "all_biosolids" }
    /\ last_error' = "none"
    /\ UNCHANGED << now, lookup_calls, pkl_not_sewer, pkl_to_remove,
                    pkl_to_remove_dated, biosolids_to_remove,
                    biosolids_not_sewer,
                    biosolids_not_sewer_not_potw, biosolids_not_sewer_is_potw,
                    biosolids_not_potw_includes_dw,
                    biosolids_not_sewer_not_potw_has_match,
                    biosolids_not_sewer_not_potw_no_match,
                    biosolids_not_sewer_not_potw_has_match_sic_removal,
                    biosolids_not_sewer_not_potw_has_match_sic_check,
                    compare_vars, has_match_config, to_remove_config >>

\* cell 5105c983cb2cdc14
LoadPickle ==
    IF "biosolids_data_sic_codes.pkl" \in files
    THEN /\ all_biosolids' = pkl_sic_codes
         /\ defined' = defined \cup { "all_biosolids" }
         /\ last_error' = "none"
         /\ UNCHANGED << files, now, lookup_calls, disk, biosolids_to_remove, biosolids_not_sewer,
                         biosolids_not_sewer_not_potw, biosolids_not_sewer_is_potw,
                         biosolids_not_potw_includes_dw,
                         biosolids_not_sewer_not_potw_has_match,
                         biosolids_not_sewer_not_potw_no_match,
                         biosolids_not_sewer_not_potw_has_match_sic_removal,
                         biosolids_not_sewer_not_potw_has_match_sic_check,
                         compare_vars, has_match_config, to_remove_config >>
    ELSE Raise("FileNotFoundError")

\* cell 6b58f93d625a8d2e
SewerFilter ==
    IF "all_biosolids" \in defined
    THEN /\ all_biosolids' = WithVerdict(all_biosolids)
         /\ biosolids_to_remove' = NotSewer(all_biosolids')
         /\ pkl_not_sewer' = biosolids_to_remove'
         /\ files' = files \cup { "biosolids_data_sic_codes_not_sewer.pkl" }
         /\ defined' = defined \cup { "biosolids_to_remove" }
         /\ to_remove_config' = "not_sewer"
         /\ lookup_calls' = lookup_calls \cup
                { all_biosolids[i].npdes_id : i \in DOMAIN all_biosolids }
         /\ last_error' = "none"
         /\ UNCHANGED << now, pkl_sic_codes, pkl_to_remove, pkl_to_remove_dated,
                         biosolids_not_sewer,
                         biosolids_not_sewer_not_potw, biosolids_not_sewer_is_potw,
                         biosolids_not_potw_includes_dw,
                         biosolids_not_sewer_not_potw_has_match,
                         biosolids_not_sewer_not_potw_no_match,
                         biosolids_not_sewer_not_potw_has_match_sic_removal,
                         biosolids_not_sewer_not_potw_has_match_sic_check,
                         compare_vars, has_match_config >>
    ELSE Raise("NameError")

\* (variant: the pickle is read only when the name is not bound yet)
LoadNotSewer_cached ==
    IF "biosolids_data_sic_codes_not_sewer.pkl" \in files
    THEN /\ biosolids_not_sewer' =
                IF "biosolids_not_sewer" \in defined THEN biosolids_not_sewer
                ELSE pkl_not_sewer
         /\ defined' = defined \cup { "biosolids_not_sewer" }
         /\ last_error' = "none"
         /\ UNCHANGED << files, now, lookup_calls, disk, all_biosolids, biosolids_to_remove,
                         biosolids_not_sewer_not_potw, biosolids_not_sewer_is_potw,
                         biosolids_not_potw_includes_dw,
                         biosolids_not_sewer_not_potw_has_match,
                         biosolids_not_sewer_not_potw_no_match,
                         biosolids_not_sewer_not_potw_has_match_sic_removal,
                         biosolids_not_sewer_not_potw_has_match_sic_check,
                         compare_vars, has_match_config, to_remove_config >>
    ELSE Raise("FileNotFoundError")

\* cell a554c2ee3c6a0c2f
LoadNotSewer ==
    IF "biosolids_data_sic_codes_not_sewer.pkl" \in files
    THEN /\ biosolids_not_sewer' = pkl_not_sewer
         /\ defined' = defined \cup { "biosolids_not_sewer" }
         /\ last_error' = "none"
         /\ UNCHANGED << files, now, lookup_calls, disk, all_biosolids, biosolids_to_remove,
                         biosolids_not_sewer_not_potw, biosolids_not_sewer_is_potw,
                         biosolids_not_potw_includes_dw,
                         biosolids_not_sewer_not_potw_has_match,
                         biosolids_not_sewer_not_potw_no_match,
                         biosolids_not_sewer_not_potw_has_match_sic_removal,
                         biosolids_not_sewer_not_potw_has_match_sic_check,
                         compare_vars, has_match_config, to_remove_config >>
    ELSE Raise("FileNotFoundError")

\* cell 529c6873221287de: ~ on a mask that holds NaN raises TypeError
PotwFilter ==
    IF "biosolids_not_sewer" \notin defined THEN Raise("NameError")
    ELSE IF HasNaNText(biosolids_not_sewer) THEN Raise("TypeError")
    ELSE /\ biosolids_not_sewer_not_potw' = NotPotw(biosolids_not_sewer)
         /\ defined' = defined \cup { "biosolids_not_sewer_not_potw" }
         /\ last_error' = "none"
         /\ UNCHANGED << files, now, lookup_calls, disk, all_biosolids, biosolids_to_remove,
                         biosolids_not_sewer, biosolids_not_sewer_is_potw,
                         biosolids_not_potw_includes_dw,
                         biosolids_not_sewer_not_potw_has_match,
                         biosolids_not_sewer_not_potw_no_match,
                         biosolids_not_sewer_not_potw_has_match_sic_removal,
                         biosolids_not_sewer_not_potw_has_match_sic_check,
                         compare_vars, has_match_config, to_remove_config >>

\* cell ac96462d232b7fbe
HasMatchFilter ==
    IF "biosolids_not_sewer_not_potw" \in defined
    THEN /\ biosolids_not_sewer_not_potw_has_match' =
                HasMatch(biosolids_not_sewer_not_potw)
         /\ has_match_config' = "original"
         /\ defined' = defined \cup { "biosolids_not_sewer_not_potw_has_match" }
         /\ last_error' = "none"
         /\ UNCHANGED << files, now, lookup_calls, disk, all_biosolids, biosolids_to_remove,
                         biosolids_not_sewer,
                         biosolids_not_sewer_not_potw, biosolids_not_sewer_is_potw,
                         biosolids_not_potw_includes_dw,
                         biosolids_not_sewer_not_potw_no_match,
                         biosolids_not_sewer_not_potw_has_match_sic_removal,
                         biosolids_not_sewer_not_potw_has_match_sic_check,
                         compare_vars, to_remove_config >>
    ELSE Raise("NameError")

\* cell 5f91d29ff438f350
NoMatchCount ==
    IF "biosolids_not_sewer_not_potw" \in defined
    THEN /\ biosolids_not_sewer_not_potw_no_match' =
                NoMatch(biosolids_not_sewer_not_potw)
         /\ defined' = defined \cup { "biosolids_not_sewer_not_potw_no_match" }
         /\ last_error' = "none"
         /\ UNCHANGED << files, now, lookup_calls, disk, all_biosolids, biosolids_to_remove,
                         biosolids_not_sewer,
                         biosolids_not_sewer_not_potw, biosolids_not_sewer_is_potw,
                         biosolids_not_potw_includes_dw,
                         biosolids_not_sewer_not_potw_has_match,
                         biosolids_not_sewer_not_potw_has_match_sic_removal,
                         biosolids_not_sewer_not_potw_has_match_sic_check,
                         compare_vars, has_match_config, to_remove_config >>
    ELSE Raise("NameError")

\* cell 1e48b34e558dfd8a: binds sic_remove and sic_check, then filters
SicRemovalFilter ==
    /\ IF "biosolids_not_sewer_not_potw_has_match" \in defined
       THEN /\ biosolids_not_sewer_not_potw_has_match_sic_removal' =
                   SicRemoval(biosolids_not_sewer_not_potw_has_match)
            /\ defined' = defined \cup { "sic_remove", "sic_check",
                      "biosolids_not_sewer_not_potw_has_match_sic_removal" }
            /\ last_error' = "none"
       ELSE /\ defined' = defined \cup { "sic_remove", "sic_check" }
            /\ last_error' = "NameError"
            /\ UNCHANGED biosolids_not_sewer_not_potw_has_match_sic_removal
    /\ UNCHANGED << files, now, lookup_calls, disk, all_biosolids, biosolids_to_remove,
                    biosolids_not_sewer,
                    biosolids_not_sewer_not_potw, biosolids_not_sewer_is_potw,
                    biosolids_not_potw_includes_dw,
                    biosolids_not_sewer_not_potw_has_match,
                    biosolids_not_sewer_not_potw_no_match,
                    biosolids_not_sewer_not_potw_has_match_sic_check,
                    compare_vars, has_match_config, to_remove_config >>

\* cells 30b073990c4f5106 and 6e3850fdccfefd90 (the same code)
SicCheckFilter ==
    IF /\ "biosolids_not_sewer_not_potw_has_match" \in defined
       /\ "sic_remove" \in defined
    THEN /\ biosolids_not_sewer_not_potw_has_match_sic_check' =
                SicCheck(biosolids_not_sewer_not_potw_has_match)
         /\ defined' = defined \cup
                { "biosolids_not_sewer_not_potw_has_match_sic_check" }
         /\ last_error' = "none"
         /\ UNCHANGED << files, now, lookup_calls, disk, all_biosolids, biosolids_to_remove,
                         biosolids_not_sewer,
                         biosolids_not_sewer_not_potw, biosolids_not_sewer_is_potw,
                         biosolids_not_potw_includes_dw,
                         biosolids_not_sewer_not_potw_has_match,
                         biosolids_not_sewer_not_potw_no_match,
                         biosolids_not_sewer_not_potw_has_match_sic_removal,
                         compare_vars, has_match_config, to_remove_config >>
    ELSE Raise("NameError")

\* cell e0d5c995913d6c89
SaveToRemove ==
    IF "biosolids_not_sewer_not_potw_has_match" \in defined
    THEN /\ biosolids_to_remove' = ToRemove(biosolids_not_sewer_not_potw_has_match)
         /\ to_remove_config' = has_match_config
         /\ pkl_to_remove' = biosolids_to_remove'
         /\ files' = files \cup { "biosolids_to_remove.pkl" }
         /\ defined' = defined \cup { "biosolids_to_remove" }
         /\ last_error' = "none"
         /\ UNCHANGED << now, lookup_calls, pkl_sic_codes, pkl_not_sewer, pkl_to_remove_dated,
                         all_biosolids, biosolids_not_sewer,
                         biosolids_not_sewer_not_potw, biosolids_not_sewer_is_potw,
                         biosolids_not_potw_includes_dw,
                         biosolids_not_sewer_not_potw_has_match,
                         biosolids_not_sewer_not_potw_no_match,
                         biosolids_not_sewer_not_potw_has_match_sic_removal,
                         biosolids_not_sewer_not_potw_has_match_sic_check,
                         compare_vars, has_match_config >>
    ELSE Raise("NameError")

\* cell c0b2d8828551e352: indexing with a mask that holds NaN raises ValueError
DataExploration ==
    IF "biosolids_data_sic_codes_not_sewer.pkl" \notin files
    THEN Raise("FileNotFoundError")
    ELSE /\ biosolids_not_sewer' = pkl_not_sewer
         /\ IF HasNaNText(biosolids_not_sewer')
            THEN /\ last_error' = "ValueError"
                 /\ defined' = defined \cup { "biosolids_not_sewer" }
                 /\ UNCHANGED biosolids_not_sewer_is_potw
            ELSE /\ last_error' = "none"
                 /\ biosolids_not_sewer_is_potw' = IsPotw(biosolids_not_sewer')
                 /\ defined' = defined \cup { "biosolids_not_sewer",
                                              "biosolids_not_sewer_is_potw" }
         /\ UNCHANGED << files, now, lookup_calls, disk, all_biosolids, biosolids_to_remove,
                         biosolids_not_sewer_not_potw,
                         biosolids_not_potw_includes_dw,
                         biosolids_not_sewer_not_potw_has_match,
                         biosolids_not_sewer_not_potw_no_match,
                         biosolids_not_sewer_not_potw_has_match_sic_removal,
                         biosolids_not_sewer_not_potw_has_match_sic_check,
                         compare_vars, has_match_config, to_remove_config >>

\* cell 9a4396fead556222: its last statement reads sic_remove of cell 1e48...
RevisedPass ==
    IF "biosolids_data_sic_codes_not_sewer.pkl" \notin files
    THEN Raise("FileNotFoundError")
    ELSE /\ biosolids_not_sewer' = WithDwSicCheck(WithPotwCheck(pkl_not_sewer))
         /\ biosolids_not_potw_includes_dw' = NotPotwUnlessDw(biosolids_not_sewer')
         /\ biosolids_not_sewer_not_potw_has_match' =
                HasMatch(biosolids_not_potw_includes_dw')
         /\ has_match_config' = "revised"
         /\ IF "sic_remove" \in defined
            THEN /\ last_error' = "none"
                 /\ biosolids_not_sewer_not_potw_has_match_sic_removal' =
                        SicRemoval(biosolids_not_sewer_not_potw_has_match')
                 /\ defined' = defined \cup
                        { "biosolids_not_sewer", "biosolids_not_potw_includes_dw",
                          "biosolids_not_sewer_not_potw_has_match",
                          "biosolids_not_sewer_not_potw_has_match_sic_removal" }
            ELSE /\ last_error' = "NameError"
                 /\ defined' = defined \cup
                        { "biosolids_not_sewer", "biosolids_not_potw_includes_dw",
                          "biosolids_not_sewer_not_potw_has_match" }
                 /\ UNCHANGED biosolids_not_sewer_not_potw_has_match_sic_removal
         /\ UNCHANGED << files, now, lookup_calls, disk, all_biosolids, biosolids_to_remove,
                         biosolids_not_sewer_not_potw, biosolids_not_sewer_is_potw,
                         biosolids_not_sewer_not_potw_no_match,
                         biosolids_not_sewer_not_potw_has_match_sic_check,
                         compare_vars, to_remove_config >>

\* cell 9cb678c0c1229ae8: the file name carries the minute of the clock
SaveToRemoveDated ==
    IF "biosolids_not_sewer_not_potw_has_match" \in defined
    THEN /\ biosolids_to_remove' = ToRemove(biosolids_not_sewer_not_potw_has_match)
         /\ to_remove_config' = has_match_config
         /\ pkl_to_remove_dated' =
                [ stamp \in DOMAIN pkl_to_remove_dated \cup { now } |->
                    IF stamp = now THEN biosolids_to_remove'
                    ELSE pkl_to_remove_dated[stamp] ]
         /\ defined' = defined \cup { "biosolids_to_remove" }
         /\ last_error' = "none"
         /\ UNCHANGED << files, now, lookup_calls, pkl_sic_codes, pkl_not_sewer, pkl_to_remove,
                         all_biosolids, biosolids_not_sewer,
                         biosolids_not_sewer_not_potw, biosolids_not_sewer_is_potw,
                         biosolids_not_potw_includes_dw,
                         biosolids_not_sewer_not_potw_has_match,
                         biosolids_not_sewer_not_potw_no_match,
                         biosolids_not_sewer_not_potw_has_match_sic_removal,
                         biosolids_not_sewer_not_potw_has_match_sic_check,
                         compare_vars, has_match_config >>
    ELSE Raise("NameError")

-----
(* The final comparison of the two methods *)

\* the stamp in the file name the comparison reads, '2024-03-25_11-32'
UpdateStamp == 0

RECURSIVE SortedLabels(_)
SortedLabels(S) ==
    IF S = {} THEN << >>
    ELSE LET m == CHOOSE x \in S : \A y \in S : x <= y
         IN  << m >> \o SortedLabels(S \ { m })

\* frame[common_columns], row by row in the frame's order, with the labels
KeyColumns(row) == [ c \in common_columns |-> row[c] ]

KeyRows(frame) ==
    LET labels == SortedLabels(DOMAIN frame)
    IN  [ k \in 1..Len(labels) |->
            [ idx |-> labels[k], key |-> KeyColumns(frame[labels[k]]) ] ]

\* pd.concat([a, b]).drop_duplicates(keep=False).index
DropDuplicatesIndex(entries) ==
    LET Once(e) == Cardinality({ k \in DOMAIN entries : entries[k].key = e.key }) = 1
        kept == SelectSeq(entries, Once)
    IN  [ k \in 1..Len(kept) |-> kept[k].idx ]

CompareIndices(original, update) ==
    DropDuplicatesIndex(KeyRows(original) \o KeyRows(update))

\* remove_update.loc[indices, common columns + ['sic_permit']]
LocRows(frame, indices) ==
    [ k \in 1..Len(indices) |->
        [ idx |-> indices[k],
          name |-> frame[indices[k]].name,
          npdes_id |-> frame[indices[k]].npdes_id,
          city |-> frame[indices[k]].city,
          state |-> frame[indices[k]].state,
          text |-> frame[indices[k]].text,
          sic_permit |-> frame[indices[k]].sic_permit ] ]

\* .loc raises KeyError when a label of the list is not in the frame's index
LocRaises(frame, indices) ==
    \E k \in DOMAIN indices : indices[k] \notin DOMAIN frame

\* (variant: the columns a frame lacks are left out of the key silently)
MissingKeyColumns_none(frame) == {}

\* the cells of a column the frame does not have (text cells are sequences)
Absent(c) == IF c = "text" THEN << NoColumn >> ELSE NoColumn

\* frame[common_columns] raises KeyError when the frame lacks one of them
MissingKeyColumns(frame) ==
    { c \in common_columns : \E i \in DOMAIN frame : frame[i][c] = Absent(c) }

\* cell 8cd0e2ff800aac02
FinalComparison ==
    IF \/ "biosolids_to_remove.pkl" \notin files
       \/ UpdateStamp \notin DOMAIN pkl_to_remove_dated
    THEN Raise("FileNotFoundError")
    ELSE IF MissingKeyColumns(pkl_to_remove)
                \cup MissingKeyColumns(pkl_to_remove_dated[UpdateStamp]) # {}
    THEN /\ remove_original' = pkl_to_remove
         /\ remove_update' = pkl_to_remove_dated[UpdateStamp]
         /\ last_error' = "KeyError"
         /\ defined' = defined \cup { "remove_original", "remove_update" }
         /\ UNCHANGED << files, now, lookup_calls, disk, kernel_frames,
                         compare_removal_list_indices, compare_removal_list,
                         has_match_config, to_remove_config >>
    ELSE /\ remove_original' = pkl_to_remove
         /\ remove_update' = pkl_to_remove_dated[UpdateStamp]
         /\ compare_removal_list_indices' =
                CompareIndices(remove_original', remove_update')
         /\ IF LocRaises(remove_update', compare_removal_list_indices')
            THEN /\ last_error' = "KeyError"
                 /\ defined' = defined \cup { "remove_original", "remove_update",
                                              "compare_removal_list_indices" }
                 /\ UNCHANGED compare_removal_list
            ELSE /\ last_error' = "none"
                 /\ compare_removal_list' =
                        LocRows(remove_update', compare_removal_list_indices')
                 /\ defined' = defined \cup { "remove_original", "remove_update",
                                              "compare_removal_list_indices",
                                              "compare_removal_list" }
         /\ UNCHANGED << files, now, lookup_calls, disk, kernel_frames,
                         has_match_config, to_remove_config >>

-----------------------------------------------------------------------------
(* The notebook run: the cells in document order; a cell that raises does
   not stop the cells after it from being run. *)

Run(cell, Cell) == pc = cell /\ Cell /\ pc' = cell + 1

Next ==
    \/ Run(1, LoadPickle)
    \/ Run(2, SewerFilter)
    \/ Run(3, LoadNotSewer)
    \/ Run(4, PotwFilter)
    \/ Run(5, HasMatchFilter)
    \/ Run(6, NoMatchCount)
    \/ Run(7, SicRemovalFilter)
    \/ Run(8, SicCheckFilter)
    \/ Run(9, SaveToRemove)
    \/ Run(10, DataExploration)
    \/ Run(11, RevisedPass)
    \/ Run(12, SicCheckFilter)
    \/ Run(13, SaveToRemoveDated)
    \/ Run(14, FinalComparison)

Spec == Init /\ [][Next]_vars

-----------------------------------------------------------------------------
(* The run that also builds the enriched roster: nothing is on disk yet and
   the first cell is the enrichment. *)

InitEnrich ==
    /\ InitKernel
    /\ pc = 0
    /\ now = 0
    /\ lookup_calls = {}
    /\ files = {}
    /\ pkl_sic_codes = EmptyFrame
    /\ pkl_not_sewer = EmptyFrame
    /\ pkl_to_remove = EmptyFrame
    /\ pkl_to_remove_dated = << >>

NextEnrich == Run(0, EnrichRoster) \/ Next

SpecEnrich == InitEnrich /\ [][NextEnrich]_vars

-----------------------------------------------------------------------------
(* The run from the not-sewer checkpoint on, over two facilities whose code
   lists are any the lookup may have returned: the codes in any order and
   number, or the no-match marker. *)

\* a water-supply code, a code of the review list, a code of the removal list
CodeSet == { "4941", "9511", "5541" }

CodeLists ==
    UNION { [ 1..n -> CodeSet ] : n \in 1..MaxCodes } \cup { << NO_SIC_MATCH >> }

CodedRow(text, codes) ==
    [ RawRow("TX0000009", text) EXCEPT !.sic_permit = codes ]

CodedRosters ==
    { [ i \in 0..1 |-> CodedRow(text, IF i = 0 THEN a ELSE b) ] :
        text \in RosterTexts \ { NaN }, a \in CodeLists, b \in CodeLists }

InitCodes ==
    /\ InitKernel
    /\ pc = 3
    /\ now = 0
    /\ lookup_calls = {}
    /\ files = { "biosolids_data_sic_codes.pkl",
                 "biosolids_data_sic_codes_not_sewer.pkl" }
    /\ \E roster \in CodedRosters :
           /\ pkl_sic_codes = roster
           /\ pkl_not_sewer =
                  [ i \in DOMAIN roster |->
                      [ roster[i] EXCEPT !.check_sewer_permits = "other_system" ] ]
    /\ pkl_to_remove = EmptyFrame
    /\ pkl_to_remove_dated = << >>

NextCodes ==
    \/ Run(3, LoadNotSewer)
    \/ Run(4, PotwFilter)
    \/ Run(5, HasMatchFilter)
    \/ Run(6, NoMatchCount)
    \/ Run(7, SicRemovalFilter)
    \/ Run(8, SicCheckFilter)
    \/ Run(9, SaveToRemove)
    \/ Run(10, DataExploration)
    \/ Run(11, RevisedPass)
    \/ Run(12, SicCheckFilter)
    \/ Run(13, SaveToRemoveDated)
    \/ Run(14, FinalComparison)

SpecCodes == InitCodes /\ [][NextCodes]_vars

-----------------------------------------------------------------------------
(* A second run of the notebook over the same files: the cells in document
   order once more, in the same kernel or after a kernel restart. *)

\* Kernel > Restart: every name is unbound, the files stay
Restart ==
    /\ pc = 15
    /\ pc' = 16
    /\ defined' = {}
    /\ last_error' = "none"
    /\ all_biosolids' = EmptyFrame
    /\ biosolids_to_remove' = EmptyFrame
    /\ biosolids_not_sewer' = EmptyFrame
    /\ biosolids_not_sewer_not_potw' = EmptyFrame
    /\ biosolids_not_sewer_is_potw' = EmptyFrame
    /\ biosolids_not_potw_includes_dw' = EmptyFrame
    /\ biosolids_not_sewer_not_potw_has_match' = EmptyFrame
    /\ biosolids_not_sewer_not_potw_no_match' = EmptyFrame
    /\ biosolids_not_sewer_not_potw_has_match_sic_removal' = EmptyFrame
    /\ biosolids_not_sewer_not_potw_has_match_sic_check' = EmptyFrame
    /\ remove_original' = EmptyFrame
    /\ remove_update' = EmptyFrame
    /\ compare_removal_list_indices' = << >>
    /\ compare_removal_list' = << >>
    /\ has_match_config' = "none"
    /\ to_remove_config' = "none"
    /\ UNCHANGED << files, now, lookup_calls, disk >>

\* the second run starts in the kernel the first run left
KeepKernel ==
    /\ pc = 15
    /\ pc' = 16
    /\ UNCHANGED << defined, files, now, lookup_calls, last_error, disk, kernel_frames,
                    compare_vars, has_match_config, to_remove_config >>

Rerun(cell, Cell) == pc = cell + 15 /\ Cell /\ pc' = pc + 1

InitRerun == Init /\ now = 0

NextRerun ==
    \/ Next
    \/ Restart
    \/ KeepKernel
    \/ Rerun(1, LoadPickle)
    \/ Rerun(2, SewerFilter)
    \/ Rerun(3, LoadNotSewer)
    \/ Rerun(4, PotwFilter)
    \/ Rerun(5, HasMatchFilter)
    \/ Rerun(6, NoMatchCount)
    \/ Rerun(7, SicRemovalFilter)
    \/ Rerun(8, SicCheckFilter)
    \/ Rerun(9, SaveToRemove)
    \/ Rerun(10, DataExploration)
    \/ Rerun(11, RevisedPass)
    \/ Rerun(12, SicCheckFilter)
    \/ Rerun(13, SaveToRemoveDated)
    \/ Rerun(14, FinalComparison)

SpecRerun == InitRerun /\ [][NextRerun]_vars

-----------------------------------------------------------------------------
(* The notebook used interactively: after the run in document order the
   user executes single cells again, in any order, while the clock moves on
   (the recorded execution counts 29..33 and 53 show such a session). *)

\* a cell executed on its own after the run
Again(Cell) == pc = 15 /\ Cell /\ pc' = pc

\* a minute passes
Tick ==
    /\ pc = 15
    /\ now < MaxMinute
    /\ now' = now + 1
    /\ UNCHANGED << pc, defined, files, lookup_calls, last_error, disk,
                    kernel_frames, compare_vars, has_match_config,
                    to_remove_config >>

InitCells == Init /\ now = 0

\* the cells that bind ..._has_match and the cells that save it
NextCells ==
    \/ Next
    \/ Tick
    \/ Again(HasMatchFilter)
    \/ Again(RevisedPass)
    \/ Again(SaveToRemove)
    \/ Again(SaveToRemoveDated)

SpecCells == InitCells /\ [][NextCells]_vars

-----------------------------------------------------------------------------
(* Properties of the filtering pipeline *)

\* the final removal-candidate set of a configuration is in biosolids_to_remove
Final(config) == to_remove_config = config

FinalAny == Final("original") \/ Final("revised")

HasPotwText(r) == r.text # NaN /\ Substring(r.text, POTW)

IsNoMatch(r) == r.sic_permit = << NO_SIC_MATCH >>

HasDwCode(r) == \E k \in DOMAIN r.sic_permit : r.sic_permit[k] = "4941"

HasRemovalCode(r) ==
    \E k \in DOMAIN r.sic_permit :
        \E m \in DOMAIN sic_remove : r.sic_permit[k] = sic_remove[m]

\* C1: a facility whose verdict is sewer_system is never in the final
\* removal-candidate set, under either configuration, whatever its codes.
C1_SewerNeverRemoved ==
    FinalAny =>
        /\ \A i \in DOMAIN all_biosolids :
               all_biosolids[i].check_sewer_permits = "sewer_system"
                   => i \notin DOMAIN biosolids_to_remove
        /\ \A i \in DOMAIN biosolids_to_remove :
               biosolids_to_remove[i].check_sewer_permits # "sewer_system"

C1_Witness ==
    /\ Final("revised")
    /\ "biosolids_to_remove.pkl" \in files
    /\ biosolids_to_remove # EmptyFrame
    /\ \E i \in DOMAIN all_biosolids :
           /\ all_biosolids[i].check_sewer_permits = "sewer_system"
           /\ HasRemovalCode(all_biosolids[i])
           /\ ~HasPotwText(all_biosolids[i])

\* C2: a facility whose code set is the no-match marker is never in the final
\* removal-candidate set, under either configuration; the revised pass
\* computes dw_sic_check = False for it and does not raise.
C2_NoMatchNeverRemoved ==
    /\ FinalAny =>
           \A i \in DOMAIN all_biosolids :
               IsNoMatch(all_biosolids[i]) => i \notin DOMAIN biosolids_to_remove
    /\ pc = 12 =>
           /\ last_error = "none"
           /\ \A i \in DOMAIN biosolids_not_sewer :
                  IsNoMatch(biosolids_not_sewer[i])
                      => biosolids_not_sewer[i].dw_sic_check = "False"

C2_Witness ==
    /\ Final("revised")
    /\ \E i \in DOMAIN biosolids_not_potw_includes_dw :
           /\ IsNoMatch(biosolids_not_potw_includes_dw[i])
           /\ biosolids_not_potw_includes_dw[i].dw_sic_check = "False"
           /\ i \notin DOMAIN biosolids_to_remove
    /\ \E i \in DOMAIN all_biosolids :
           IsNoMatch(all_biosolids[i]) /\ HasPotwText(all_biosolids[i])

\* C3: in the revised pass, of the facilities that failed rule 1, one with
\* "POTW" in its text and 4941 among its codes is not retained by rule 2 (it
\* is in biosolids_not_potw_includes_dw and goes on to the no-match rule),
\* and one with "POTW" in its text and no 4941 is retained by rule 2.
C3_OverrideRevised ==
    "biosolids_not_potw_includes_dw" \in defined =>
        \A i \in DOMAIN pkl_not_sewer :
            HasPotwText(pkl_not_sewer[i]) =>
                /\ i \in DOMAIN biosolids_not_potw_includes_dw
                       <=> HasDwCode(pkl_not_sewer[i])
                /\ (has_match_config = "revised" /\ HasDwCode(pkl_not_sewer[i]))
                       => (i \in DOMAIN biosolids_not_sewer_not_potw_has_match
                               <=> ~IsNoMatch(pkl_not_sewer[i]))

C3_Witness ==
    /\ has_match_config = "revised"
    /\ \E i \in DOMAIN pkl_not_sewer :
           /\ HasPotwText(pkl_not_sewer[i])
           /\ HasDwCode(pkl_not_sewer[i])
           /\ i \in DOMAIN biosolids_not_sewer_not_potw_has_match
    /\ \E i \in DOMAIN pkl_not_sewer :
           /\ HasPotwText(pkl_not_sewer[i])
           /\ ~HasDwCode(pkl_not_sewer[i])
           /\ i \notin DOMAIN biosolids_not_potw_includes_dw

\* C4: in the original pass every facility with "POTW" in its text is retained
\* by rule 2, with or without 4941, so none is in the original run's final
\* removal-candidate set.
C4_OriginalPotwRetained ==
    /\ "biosolids_not_sewer_not_potw" \in defined =>
           \A i \in DOMAIN biosolids_not_sewer_not_potw :
               ~HasPotwText(biosolids_not_sewer_not_potw[i])
    /\ Final("original") =>
           \A i \in DOMAIN all_biosolids :
               HasPotwText(all_biosolids[i]) => i \notin DOMAIN biosolids_to_remove

C4_Witness ==
    /\ Final("original")
    /\ \E i \in DOMAIN pkl_not_sewer :
           /\ HasPotwText(pkl_not_sewer[i])
           /\ HasDwCode(pkl_not_sewer[i])
           /\ i \notin DOMAIN biosolids_to_remove
    /\ \E i \in DOMAIN pkl_not_sewer :
           /\ HasPotwText(pkl_not_sewer[i])
           /\ ~HasDwCode(pkl_not_sewer[i])
           /\ ~IsNoMatch(pkl_not_sewer[i])
           /\ i \notin DOMAIN biosolids_to_remove

\* C5: every member of the final removal-candidate set failed all retention
\* rules of its configuration: verdict other_system, not retained by the POTW
\* rule (original: no "POTW"; revised: no "POTW" or 4941 present), and its
\* code set is not the no-match marker.
C5_MembersFailedAllRules ==
    /\ Final("original") =>
           \A i \in DOMAIN biosolids_to_remove :
               LET r == biosolids_to_remove[i] IN
               /\ r.check_sewer_permits = "other_system"
               /\ ~HasPotwText(r)
               /\ ~IsNoMatch(r)
    /\ Final("revised") =>
           \A i \in DOMAIN biosolids_to_remove :
               LET r == biosolids_to_remove[i] IN
               /\ r.check_sewer_permits = "other_system"
               /\ ~HasPotwText(r) \/ HasDwCode(r)
               /\ ~IsNoMatch(r)

C5_Witness ==
    /\ Final("revised")
    /\ \E i \in DOMAIN biosolids_to_remove :
           HasPotwText(biosolids_to_remove[i]) /\ HasDwCode(biosolids_to_remove[i])
    /\ \E i \in DOMAIN biosolids_to_remove : ~HasPotwText(biosolids_to_remove[i])
    /\ \E i \in DOMAIN pkl_to_remove : ~HasPotwText(pkl_to_remove[i])

\* a facility of the roster that failed rules 1-3 of a configuration
FailedRules123(r, config) ==
    /\ r.check_sewer_permits = "other_system"
    /\ IF config = "original" THEN ~HasPotwText(r)
       ELSE ~HasPotwText(r) \/ HasDwCode(r)
    /\ ~IsNoMatch(r)

C7_UnreviewedKept ==
    (FinalAny /\ "biosolids_not_sewer_not_potw_has_match_sic_check" \in defined) =>
        \A i \in DOMAIN biosolids_not_sewer_not_potw_has_match_sic_check :
            biosolids_not_sewer_not_potw_has_match_sic_check[i].npdes_id
                    \notin manual_review_remove
                => i \notin DOMAIN biosolids_to_remove

\* the comparison cell has read an original and a revised run of this
\* notebook run, both computed from pkl_not_sewer
ComparedBothRuns ==
    /\ pc = 15
    /\ "biosolids_to_remove.pkl" \in files
    /\ UpdateStamp \in DOMAIN pkl_to_remove_dated

\* the labels of the rows the override newly admits
RevisionGap ==
    { i \in DOMAIN pkl_not_sewer :
          /\ pkl_not_sewer[i].check_sewer_permits = "other_system"
          /\ HasPotwText(pkl_not_sewer[i])
          /\ HasDwCode(pkl_not_sewer[i])
          /\ ~IsNoMatch(pkl_not_sewer[i]) }

\* C11: when the original and the revised run come from the same not-sewer
\* snapshot, the comparison reports exactly the other_system facilities with
\* "POTW" in the text and 4941 among their (matched) codes, and no row that
\* is only in the original run.
C11_RevisionGap ==
    ComparedBothRuns =>
        /\ last_error = "none"
        /\ { compare_removal_list[k].idx : k \in DOMAIN compare_removal_list }
               = RevisionGap
        /\ \A k \in DOMAIN compare_removal_list_indices :
               compare_removal_list_indices[k] \in DOMAIN remove_update

\* the roster rows of the scenario TX0118362: verdict other_system, codes
\* [4941], text 'A POTW that serves 10,000 people or more'
ScenarioPotwDw ==
    { i \in DOMAIN all_biosolids :
          /\ all_biosolids[i].npdes_id = "TX0118362"
          /\ all_biosolids[i].check_sewer_permits = "other_system"
          /\ all_biosolids[i].sic_permit = << "4941" >>
          /\ all_biosolids[i].text = PotwServes }

\* C12: the facility TX0118362 (other_system, [4941], 'A POTW that serves
\* 10,000 people or more') is in the removal-candidate set the revised pass
\* saves, and is not in the set the original pass saves.
C12_ScenarioPotwDw ==
    \A i \in ScenarioPotwDw :
        /\ Final("original") => i \notin DOMAIN biosolids_to_remove
        /\ "biosolids_to_remove.pkl" \in files => i \notin DOMAIN pkl_to_remove
        /\ pc >= 12 => i \in DOMAIN biosolids_not_sewer_not_potw_has_match
        /\ pc >= 14 =>
               /\ Final("revised")
               /\ i \in DOMAIN biosolids_to_remove
               /\ i \in DOMAIN pkl_to_remove_dated[now]

C12_Witness ==
    /\ pc = 15
    /\ ScenarioPotwDw # {}
    /\ "biosolids_to_remove.pkl" \in files
    /\ pkl_to_remove # EmptyFrame
    /\ \E i \in ScenarioPotwDw : i \in DOMAIN biosolids_to_remove

\* the roster rows of the scenario TX0125709: codes [4941, 4941] and an
\* empty Reporting Obligation(s) cell, which read_csv loads as NaN
ScenarioEmptyText ==
    { i \in DOMAIN pkl_sic_codes :
          /\ pkl_sic_codes[i].npdes_id = "TX0125709"
          /\ pkl_sic_codes[i].sic_permit = << "4941", "4941" >>
          /\ pkl_sic_codes[i].text = NaN }

\* C13: the facility TX0125709 (empty text, [4941, 4941]) gets the verdict
\* other_system, passes the POTW rule and the no-match rule of either pass,
\* holds a code of sic_remove, and is in the removal-candidate set that the
\* original pass saves and in the one that the revised pass saves.
C13_ScenarioEmptyText ==
    \A i \in ScenarioEmptyText :
        /\ pc >= 3 => all_biosolids[i].check_sewer_permits = "other_system"
        /\ AnySicRemove(pkl_sic_codes[i].sic_permit)
        /\ pc >= 10 =>
               /\ "biosolids_to_remove.pkl" \in files
               /\ i \in DOMAIN pkl_to_remove
        /\ pc >= 14 =>
               /\ Final("revised")
               /\ i \in DOMAIN pkl_to_remove_dated[now]

LookupFailed == { i \in DOMAIN pkl_sic_codes :
                      pkl_sic_codes[i].npdes_id \notin RegistryIds }

C17_NoLookupOnCachedRun ==
    "biosolids_data_sic_codes.pkl" \in files => lookup_calls = {}

\* the not-sewer rows whose Reporting Obligation(s) is missing
MissingText == { i \in DOMAIN pkl_not_sewer : pkl_not_sewer[i].text = NaN }

\* C18: in both passes a facility without a reporting-obligation text counts
\* as not containing "POTW": the POTW cell of the pass does not raise, rule 2
\* does not retain the facility, and it is handed to the no-match rule.
C18_MissingTextNotPotw ==
    /\ pc = 5 =>
           /\ last_error = "none"
           /\ \A i \in MissingText : i \in DOMAIN biosolids_not_sewer_not_potw
    /\ pc = 6 =>
           \A i \in MissingText :
               i \in DOMAIN biosolids_not_sewer_not_potw_has_match
                   <=> ~IsNoMatch(pkl_not_sewer[i])
    /\ pc = 12 =>
           /\ last_error = "none"
           /\ \A i \in MissingText :
                  /\ i \in DOMAIN biosolids_not_potw_includes_dw
                  /\ i \in DOMAIN biosolids_not_sewer_not_potw_has_match
                         <=> ~IsNoMatch(pkl_not_sewer[i])

-----------------------------------------------------------------------------
(* The final comparison on its own: the two pickle files it reads were
   written by earlier runs over the same roster file, possibly from
   different enrichments of it, so a row label names the same roster row in
   both files while sic_permit and the verdict may differ. *)

\* a row of the comparison's printed output, and rows that differ from it
\* in exactly one key column
CompareBase ==
    [ name |-> "NOONDAY WATER WELL 2 WWTF", npdes_id |-> "TX0118362",
      city |-> "TYLER", state |-> "TX",
      text |-> PotwServes ]

CompareFacilities ==
    { CompareBase,
      [ CompareBase EXCEPT !.name = "TEASELVILLE WELL 1 WWTF" ],
      [ CompareBase EXCEPT !.npdes_id = "TX0118273" ],
      [ CompareBase EXCEPT !.city = "LAREDO" ],
      [ CompareBase EXCEPT !.state = "NY" ],
      [ CompareBase EXCEPT !.text = NaN ] }

\* the roster file: its first row, then any of the rows above
CompareRosters ==
    UNION { { roster \in [ 0..(n - 1) -> CompareFacilities ] :
                  roster[0] = CompareBase }
            : n \in 1..MaxRows }

\* what a run attached to a row of its removal-candidate set: the codes of
\* its enrichment (every row here has "POTW" or no text, so 4941 is among
\* them), and, in a revised run, the two check columns
RunColumns ==
    { [ sic_permit |-> << "4941" >>, revised |-> FALSE ],
      [ sic_permit |-> << "5541", "4941" >>, revised |-> FALSE ],
      [ sic_permit |-> << "4941" >>, revised |-> TRUE ] }

EnrichedRow(facility, columns) ==
    [ name |-> facility.name, npdes_id |-> facility.npdes_id,
      city |-> facility.city, state |-> facility.state, text |-> facility.text,
      sic_permit |-> columns.sic_permit,
      check_sewer_permits |-> "other_system",
      potw_check |-> IF columns.revised THEN str_contains(facility.text, POTW)
                     ELSE NoColumn,
      dw_sic_check |-> IF ~columns.revised THEN NoColumn
                       ELSE IF PyIn(dw_code, columns.sic_permit) THEN "True"
                       ELSE "False" ]

\* the frames a run over the roster may have pickled
SavedRuns(roster) ==
    UNION { { [ i \in labels |-> EnrichedRow(roster[i], e[i]) ]
                : e \in [ labels -> RunColumns ] }
            : labels \in SUBSET DOMAIN roster }

InitCompare ==
    /\ InitKernel
    /\ pc = 14
    /\ now = 0
    /\ lookup_calls = {}
    /\ files = { "biosolids_data_sic_codes.pkl",
                 "biosolids_data_sic_codes_not_sewer.pkl",
                 "biosolids_to_remove.pkl" }
    /\ pkl_sic_codes = EmptyFrame
    /\ pkl_not_sewer = EmptyFrame
    /\ \E roster \in CompareRosters :
         \E a \in SavedRuns(roster), b \in SavedRuns(roster) :
           /\ pkl_to_remove = a
           /\ pkl_to_remove_dated = [ stamp \in { UpdateStamp } |-> b ]

NextCompare == Run(14, FinalComparison)

SpecCompare == InitCompare /\ [][NextCompare]_vars

-----------------------------------------------------------------------------
(* The final comparison of two saved runs of which one or both may come from
   a roster export without one of the key columns. *)

\* a frame saved from a roster that has no column c
DropColumn(frame, c) ==
    [ i \in DOMAIN frame |-> [ frame[i] EXCEPT ![c] = Absent(c) ] ]

\* the runs of the original configuration over the roster, as exported or
\* without one key column
SchemaRuns(roster) ==
    LET columns == [ sic_permit |-> << "4941" >>, revised |-> FALSE ]
        runs == { [ i \in labels |-> EnrichedRow(roster[i], columns) ]
                      : labels \in SUBSET DOMAIN roster }
    IN  runs \cup { DropColumn(run, c) : run \in runs, c \in common_columns }

InitSchema ==
    /\ InitKernel
    /\ pc = 14
    /\ now = 0
    /\ lookup_calls = {}
    /\ files = { "biosolids_data_sic_codes.pkl",
                 "biosolids_data_sic_codes_not_sewer.pkl",
                 "biosolids_to_remove.pkl" }
    /\ pkl_sic_codes = EmptyFrame
    /\ pkl_not_sewer = EmptyFrame
    /\ \E roster \in CompareRosters :
         \E a \in SchemaRuns(roster), b \in SchemaRuns(roster) :
           /\ pkl_to_remove = a
           /\ pkl_to_remove_dated = [ stamp \in { UpdateStamp } |-> b ]

SpecSchema == InitSchema /\ [][NextCompare]_vars

-----------------------------------------------------------------------------
(* Properties of the final comparison *)

Compared == pc = 15 /\ "remove_update" \in defined

SameFacility(r1, r2) ==
    /\ r1.name = r2.name
    /\ r1.npdes_id = r2.npdes_id
    /\ r1.city = r2.city
    /\ r1.state = r2.state
    /\ r1.text = r2.text

\* labels of the rows of run x whose facility is in no row of run y
OnlyIn(x, y) ==
    { i \in DOMAIN x : \A j \in DOMAIN y : ~SameFacility(x[i], y[j]) }

ReportedLabels ==
    { compare_removal_list[k].idx : k \in DOMAIN compare_removal_list }

\* what the cell's code reports for runs a and b, and whether it raises
ReportsFor(a, b) ==
    LET indices == CompareIndices(a, b)
    IN  [ raised |-> LocRaises(b, indices),
          labels |-> IF LocRaises(b, indices) THEN {}
                     ELSE { indices[k] : k \in DOMAIN indices } ]

\* C8: the comparison reports as added exactly the rows of run_b whose key is
\* absent from run_a, accounts for the rows of run_a whose key is absent from
\* run_b as removed, and never reports a row found only in run_a as added.
C8_AddedAndRemoved ==
    Compared =>
        /\ last_error = "none"
        /\ "compare_removal_list" \in defined
        /\ ReportedLabels = OnlyIn(remove_update, remove_original)
        /\ \A k \in DOMAIN compare_removal_list :
               \A i \in OnlyIn(remove_original, remove_update) :
                   ~SameFacility(compare_removal_list[k], remove_original[i])

\* C9: the comparison of (A, B) and the comparison of (B, A) mirror each
\* other: what one reports as added is what the other has as removed (the
\* rows of its first run whose key is absent from its second run).
C9_Symmetric ==
    Compared =>
        LET ab == ReportsFor(remove_original, remove_update)
            ba == ReportsFor(remove_update, remove_original)
        IN  /\ ~ab.raised
            /\ ~ba.raised
            /\ ab.labels = OnlyIn(remove_update, remove_original)
            /\ ba.labels = OnlyIn(remove_original, remove_update)

\* how many rows of the two runs are the facility of row r
Occurrences(r) ==
    Cardinality({ i \in DOMAIN remove_original : SameFacility(remove_original[i], r) })
  + Cardinality({ j \in DOMAIN remove_update : SameFacility(remove_update[j], r) })

\* C10: two entries are the same facility exactly when they agree on Facility
\* Name, NPDES ID, City, State and Reporting Obligation(s): the comparison
\* keeps the label of an entry exactly when no other entry agrees with it on
\* these five, so an entry that is in both runs under the same key is not
\* reported, whatever its other columns (sic_permit, the verdict, the check
\* columns) are in the two runs.
C10_KeyIsFiveColumns ==
    Compared =>
        /\ \A l \in DOMAIN remove_original \cup DOMAIN remove_update :
               Cardinality({ k \in DOMAIN compare_removal_list_indices :
                                 compare_removal_list_indices[k] = l })
               = Cardinality({ i \in DOMAIN remove_original \cap { l } :
                                   Occurrences(remove_original[i]) = 1 })
               + Cardinality({ j \in DOMAIN remove_update \cap { l } :
                                   Occurrences(remove_update[j]) = 1 })
        /\ \A i \in DOMAIN remove_original, j \in DOMAIN remove_update :
               SameFacility(remove_original[i], remove_update[j]) =>
                   /\ \A k \in DOMAIN compare_removal_list_indices :
                          compare_removal_list_indices[k] \notin { i, j }
                   /\ last_error = "none" =>
                          \A k \in DOMAIN compare_removal_list :
                              ~SameFacility(compare_removal_list[k], remove_update[j])

C10_Witness ==
    /\ Compared
    /\ last_error = "none"
    /\ compare_removal_list # << >>
    /\ \E i \in DOMAIN remove_original, j \in DOMAIN remove_update :
           /\ SameFacility(remove_original[i], remove_update[j])
           /\ remove_original[i].sic_permit # remove_update[j].sic_permit
    /\ \E i \in DOMAIN remove_original, j \in DOMAIN remove_update :
           /\ SameFacility(remove_original[i], remove_update[j])
           /\ remove_original[i].potw_check # remove_update[j].potw_check

\* a saved run in which one of the five key columns is absent
LacksKeyColumn(run) ==
    \E i \in DOMAIN run :
        \/ run[i].name = NoColumn
        \/ run[i].npdes_id = NoColumn
        \/ run[i].city = NoColumn
        \/ run[i].state = NoColumn
        \/ run[i].text = << NoColumn >>

\* C19: when one of the two runs lacks a key column (Facility Name, NPDES ID,
\* City, State, Reporting Obligation(s)), the comparison cell raises and
\* leaves no result: neither the index list nor the reported rows are bound.
C19_SchemaCheck ==
    (pc = 15 /\ (LacksKeyColumn(pkl_to_remove)
                    \/ LacksKeyColumn(pkl_to_remove_dated[UpdateStamp]))) =>
        /\ last_error = "KeyError"
        /\ "compare_removal_list_indices" \notin defined
        /\ "compare_removal_list" \notin defined
        /\ compare_removal_list_indices = << >>
        /\ compare_removal_list = << >>

C19_Witness ==
    /\ pc = 15
    /\ last_error = "KeyError"
    /\ remove_original # EmptyFrame
    /\ ~LacksKeyColumn(remove_original)
    /\ \E i \in DOMAIN remove_update : remove_update[i].city = NoColumn
    /\ DOMAIN remove_original # DOMAIN remove_update

-----------------------------------------------------------------------------
(* Properties of the saved snapshots *)

\* C20: whatever cells are executed, biosolids_to_remove.pkl is only ever
\* written with the output of the original pass, never with that of the
\* revised pass, and a dated snapshot, once written, is not overwritten with
\* another run's output.
C20_SnapshotsDistinct ==
    [][ /\ ("biosolids_to_remove.pkl" \in files'
              /\ ("biosolids_to_remove.pkl" \notin files
                     \/ pkl_to_remove' # pkl_to_remove))
               => to_remove_config' = "original"
        /\ \A stamp \in DOMAIN pkl_to_remove_dated :
               pkl_to_remove_dated'[stamp] = pkl_to_remove_dated[stamp] ]_vars

\* the comparison's output has a row for the facility of row r
Reported(r) ==
    /\ "compare_removal_list" \in defined
    /\ \E k \in DOMAIN compare_removal_list :
           SameFacility(compare_removal_list[k], r)

InRun(r, run) == \E i \in DOMAIN run : SameFacility(run[i], r)

\* C27: the comparison reports every facility whose key is in one run only,
\* in however many rows of that run, and every row it reports is the row of
\* a facility whose key is in one run only.
C27_MissesNothing ==
    Compared =>
        /\ \A j \in OnlyIn(remove_update, remove_original) :
               Reported(remove_update[j])
        /\ \A i \in OnlyIn(remove_original, remove_update) :
               Reported(remove_original[i])
        /\ \A k \in DOMAIN compare_removal_list :
               InRun(compare_removal_list[k], remove_original)
                   # InRun(compare_removal_list[k], remove_update)

-----------------------------------------------------------------------------
(* Properties of the checkpoints *)

\* a filtering rule has been applied to the roster
RuleApplied == \E i \in DOMAIN all_biosolids :
                   all_biosolids[i].check_sewer_permits # NoColumn

\* the POTW rule of either pass has been applied
PotwRuleApplied ==
    \/ "biosolids_not_sewer_not_potw" \in defined
    \/ "biosolids_not_potw_includes_dw" \in defined
    \/ last_error = "TypeError"

\* the codes of every roster row are in biosolids_data_sic_codes.pkl
EnrichedRosterSaved ==
    /\ "biosolids_data_sic_codes.pkl" \in files
    /\ DOMAIN pkl_sic_codes = DOMAIN all_biosolids
    /\ \A i \in DOMAIN pkl_sic_codes :
           /\ pkl_sic_codes[i].sic_permit # NoColumn
           /\ pkl_sic_codes[i].sic_permit = all_biosolids[i].sic_permit

\* C21: the enriched roster is on disk before any filtering rule is
\* applied, the not-sewer subset is on disk before the POTW rule is applied,
\* and no later cell, failing or not, changes or removes the enriched
\* roster's file.
C21_CheckpointOrdering ==
    /\ [](RuleApplied => EnrichedRosterSaved)
    /\ [](PotwRuleApplied =>
             /\ "biosolids_data_sic_codes_not_sewer.pkl" \in files
             /\ pkl_not_sewer = NotSewer(all_biosolids))
    /\ [][ pc >= 1 => /\ pkl_sic_codes' = pkl_sic_codes
                      /\ files \subseteq files' ]_vars

C21_Witness ==
    /\ pc = 15
    /\ EnrichedRosterSaved
    /\ pkl_sic_codes # EmptyFrame
    /\ "biosolids_not_sewer_not_potw" \notin defined
    /\ "biosolids_to_remove.pkl" \notin files
    /\ pkl_not_sewer # EmptyFrame

-----------------------------------------------------------------------------
(* Properties of the code lists *)

\* the distinct codes of a list
DistinctCodes(codes) == { codes[k] : k \in DOMAIN codes }

\* two rows of the not-sewer checkpoint that differ in nothing but the
\* order and the repetition of their codes
SameCodes(i, j) ==
    /\ i \in DOMAIN pkl_not_sewer
    /\ j \in DOMAIN pkl_not_sewer
    /\ pkl_not_sewer[i].text = pkl_not_sewer[j].text
    /\ DistinctCodes(pkl_not_sewer[i].sic_permit) =
           DistinctCodes(pkl_not_sewer[j].sic_permit)

\* a frame holds both rows or neither
DecidedAlike(frame, i, j) == (i \in DOMAIN frame) <=> (j \in DOMAIN frame)

\* C22: two facilities whose code lists hold the same distinct codes get the
\* same water-supply check, no-match check, removal-set check and final
\* decision, in both passes, however the codes are ordered or repeated.
C22_DuplicateTolerance ==
    \A i, j \in DOMAIN pkl_not_sewer :
        SameCodes(i, j) =>
            /\ DecidedAlike(biosolids_not_sewer_not_potw, i, j)
            /\ DecidedAlike(biosolids_not_potw_includes_dw, i, j)
            /\ DecidedAlike(biosolids_not_sewer_not_potw_has_match, i, j)
            /\ DecidedAlike(biosolids_not_sewer_not_potw_no_match, i, j)
            /\ DecidedAlike(biosolids_not_sewer_not_potw_has_match_sic_removal, i, j)
            /\ DecidedAlike(biosolids_not_sewer_not_potw_has_match_sic_check, i, j)
            /\ DecidedAlike(biosolids_to_remove, i, j)
            /\ DecidedAlike(pkl_to_remove, i, j)
            /\ \A stamp \in DOMAIN pkl_to_remove_dated :
                   DecidedAlike(pkl_to_remove_dated[stamp], i, j)
            /\ "biosolids_not_potw_includes_dw" \in defined =>
                   biosolids_not_sewer[i].dw_sic_check =
                       biosolids_not_sewer[j].dw_sic_check

C22_Witness ==
    /\ pc = 14
    /\ SameCodes(0, 1)
    /\ pkl_not_sewer[0].sic_permit = << "9511", "4941" >>
    /\ pkl_not_sewer[1].sic_permit = << "4941", "9511", "9511" >>
    /\ pkl_not_sewer[0].text = PotwServes
    /\ DOMAIN pkl_to_remove = {}
    /\ now \in DOMAIN pkl_to_remove_dated
    /\ DOMAIN pkl_to_remove_dated[now] = { 0, 1 }

-----------------------------------------------------------------------------
(* Properties of the passes as functions of the roster *)

\* the rows of the roster at the labels of part
Part(part) == Masked(pkl_sic_codes, part)

\* the whole notebook has been run
RunComplete == pc = 15

\* C23: filtering the roster gives the union of filtering any two parts of
\* it separately, in the original and in the revised pass: a facility's
\* candidate status does not depend on the other records.
C23_PerRecord ==
    RunComplete =>
        \A part \in SUBSET DOMAIN pkl_sic_codes :
            LET rest == DOMAIN pkl_sic_codes \ part
            IN  /\ DOMAIN pkl_to_remove =
                       DOMAIN OriginalPass(Part(part)) \cup
                       DOMAIN OriginalPass(Part(rest))
                /\ now \in DOMAIN pkl_to_remove_dated
                /\ DOMAIN pkl_to_remove_dated[now] =
                       DOMAIN RevisedPass_rows(Part(part)) \cup
                       DOMAIN RevisedPass_rows(Part(rest))

\* both removal lists of the run are on disk
BothListsSaved ==
    /\ "biosolids_to_remove.pkl" \in files
    /\ now \in DOMAIN pkl_to_remove_dated

\* C24: every facility on the original pass's removal list is on the revised
\* pass's removal list made from the same not-sewer snapshot, as the same row.
C24_RevisionMonotone ==
    (pc = 14 /\ BothListsSaved) =>
        \A i \in DOMAIN pkl_to_remove :
            /\ i \in DOMAIN pkl_to_remove_dated[now]
            /\ KeyColumns(pkl_to_remove_dated[now][i]) = KeyColumns(pkl_to_remove[i])
            /\ pkl_to_remove_dated[now][i].sic_permit = pkl_to_remove[i].sic_permit

C24_Witness ==
    /\ pc = 14
    /\ BothListsSaved
    /\ DOMAIN pkl_to_remove = { 1 }
    /\ DOMAIN pkl_to_remove_dated[now] = { 0, 1 }

\* the review bucket of the original pass: the rows of its removal list
\* with no code in sic_remove (no row when the pass wrote no list)
OriginalReviewBucket == SicCheck(pkl_to_remove)

\* the revised pass has run, its review bucket is bound and its list saved
RevisedBucketBound ==
    /\ pc = 14
    /\ has_match_config = "revised"
    /\ "biosolids_not_sewer_not_potw_has_match_sic_check" \in defined
    /\ now \in DOMAIN pkl_to_remove_dated

\* C25: the review bucket of the revised pass holds the same facilities as
\* the review bucket of the original pass, and every facility of the
\* revised removal list that has no code in sic_remove is one the manual
\* review decided.
C25_ReviewBucketUnaffected ==
    RevisedBucketBound =>
        /\ DOMAIN biosolids_not_sewer_not_potw_has_match_sic_check =
               DOMAIN OriginalReviewBucket
        /\ \A i \in DOMAIN pkl_to_remove_dated[now] :
               ~AnySicRemove(pkl_to_remove_dated[now][i].sic_permit) =>
                   pkl_to_remove_dated[now][i].npdes_id \in manual_review_remove

-----------------------------------------------------------------------------
(* Properties of the order of the retention filters *)

\* the outcome of a chain of filters: the frame it yields, or no frame when
\* one of them raised
Yields(frame) == [ ok |-> TRUE, frame |-> frame ]

Failed == [ ok |-> FALSE, frame |-> EmptyFrame ]

\* one retention filter of a pass, applied to the outcome so far
ApplyRule(rule, config, out) ==
    IF ~out.ok THEN out
    ELSE CASE rule = "sewer" -> Yields(NotSewer(out.frame))
           [] rule = "match" -> Yields(HasMatch(out.frame))
           [] rule = "potw" /\ config = "original" ->
                  IF HasNaNText(out.frame) THEN Failed
                  ELSE Yields(NotPotw(out.frame))
           [] rule = "potw" /\ config = "revised" ->
                  Yields(NotPotwUnlessDw(WithDwSicCheck(WithPotwCheck(out.frame))))

RuleOrders ==
    { order \in [ 1..3 -> { "sewer", "potw", "match" } ] :
          \A a, b \in 1..3 : a # b => order[a] # order[b] }

ApplyOrder(order, config, roster) ==
    ApplyRule(order[3], config,
        ApplyRule(order[2], config,
            ApplyRule(order[1], config, Yields(WithVerdict(roster)))))

\* what the run of the notebook handed to rule 4
HandedToRule4 ==
    IF "biosolids_not_sewer_not_potw_has_match" \in defined
    THEN Yields(biosolids_not_sewer_not_potw_has_match)
    ELSE Failed

SameOutcome(a, b) == a.ok = b.ok /\ DOMAIN a.frame = DOMAIN b.frame

\* C26: in the original pass (after cell ac96) and in the revised pass (after
\* cell 9a43), the three retention filters applied to the enriched roster
\* in any of their six orders hand rule 4 the facilities the run handed it.
C26_RuleOrder ==
    /\ pc = 6 =>
           \A order \in RuleOrders :
               SameOutcome(ApplyOrder(order, "original", pkl_sic_codes), HandedToRule4)
    /\ pc = 12 =>
           \A order \in RuleOrders :
               SameOutcome(ApplyOrder(order, "revised", pkl_sic_codes), HandedToRule4)

====
